---------------------------- MODULE Spec2Model ----------------------------
(***************************************************************************)
(* Telemetry analyser for a 6-axis robot arm (analyseur_telemetrie.cpp)    *)
(* and the byte layout of the frames its producer writes                   *)
(* (simulateur_telemetrie.cpp).                                            *)
(*                                                                         *)
(* Buffers are sequences of octets; the source's 0-based index i is the    *)
(* element i + 1 of the sequence.  A threshold in amperes is held as its   *)
(* whole number of milliamperes (seuil = seuil_mA / 1000).                 *)
(***************************************************************************)
EXTENDS Integers, Sequences, FiniteSets, TLC

(***************************************************************************)
(* Protocol constants.                                                     *)
(***************************************************************************)
SYNC_H == 170

SYNC_L == 85

NB_AXES == 6

TAILLE_AXE == 6

TAILLE_ENTETE == 3

TAILLE_TRAME == TAILLE_ENTETE + NB_AXES * TAILLE_AXE

\* (uint8_t) of the int EOF (-1) that std::cin.get() returns at end of input.
OCTET_EOF == 255

\* sizeof(const Trame*): the size of a pointer under the build's ABI.
TaillesPointeur == {4, 8}

(***************************************************************************)
(* Bounds of the model.                                                    *)
(***************************************************************************)
\* Longest buffer enumerated octet by octet.
MaxPetit == 3

\* Longest run of filler octets put before a frame.
MaxBruit == 3

\* Largest start offset tried within each 39-octet stride of a buffer.
MaxDebut == 4

\* Most frames handed to analyser_trame in one run.
MaxTrames == 3

\* Most calls of simuler_axe on the axis that is run alone.
MaxTicks == 8

\* Frames of a producer run whose draws are all enumerated.
MaxRiche == 2

\* Most frames of a producer run: past the wrap of the sequence number.
MaxCompteur == 258

(***************************************************************************)
(* Producer side: the octets of one frame.                                 *)
(***************************************************************************)
\* ecrire_uint16_le: low octet first.
\* The two octets in the other order.
EcrireUint16Be(valeur) == << (valeur \div 256) % 256, valeur % 256 >>

EcrireUint16Le(valeur) == << valeur % 256, (valeur \div 256) % 256 >>

\* static_cast<uint16_t> of an int16_t.
VersUint16(v) == v % 65536

\* One axis block of generer_trame: position, vitesse, courant.
OctetsAxe(a) ==
    EcrireUint16Le(VersUint16(a.position))
        \o EcrireUint16Le(VersUint16(a.vitesse))
        \o EcrireUint16Le(a.courant)

RECURSIVE OctetsAxes(_, _)
OctetsAxes(axes, i) ==
    IF i > NB_AXES THEN << >>
    ELSE OctetsAxe(axes[i]) \o OctetsAxes(axes, i + 1)

\* The 39 octets generer_trame writes for sequence number seq and raw axes.
OctetsTrame(seq, axes) == << SYNC_H, SYNC_L, seq >> \o OctetsAxes(axes, 1)

(***************************************************************************)
(* Analyser side: data structures.                                         *)
(***************************************************************************)
DonneesAxe(p, v, c) == [position |-> p, vitesse |-> v, courant |-> c]

\* Six axes: the first at position p1 with current c1, the last with current
\* c6, the others at rest with 1000 mA.
AxesDe(p1, c1, c6) ==
    [k \in 1..NB_AXES |->
        DonneesAxe(IF k = 1 THEN p1 ELSE 0, 0,
                   IF k = 1 THEN c1 ELSE IF k = NB_AXES THEN c6 ELSE 1000)]

\* struct Trame: note the two arrays of NB_AXES axes.
Trame(s1, s2, seq, c1, c6) ==
    [sync1 |-> s1, sync2 |-> s2, sequence |-> seq,
     axe1 |-> AxesDe(0, c1, c6), axe2 |-> AxesDe(0, 1000, 1000)]

\* struct Statistiques with its default member initialisers.
StatistiquesInit ==
    [octets_lus |-> 0, trames_valides |-> 0, trames_alerte |-> 0,
     sequence_min |-> 255, sequence_max |-> 0, octets_bruit |-> 0]

(***************************************************************************)
(* trouver_sync.  buffer[i + 1] is read whenever buffer[i] = SYNC_H, also  *)
(* for i = taille - 1: that read is past the end of the buffer and its     *)
(* value, hors, is whatever octet follows the buffer in memory.            *)
(***************************************************************************)
LireOctet(buf, i, hors) == IF i < Len(buf) THEN buf[i + 1] ELSE hors

RECURSIVE TrouverSyncDe(_, _, _, _)
TrouverSyncDe(buf, i, hors, lus) ==
    IF ~(i < Len(buf)) THEN [pos |-> -1, lus |-> lus]
    ELSE IF LireOctet(buf, i, hors) = SYNC_H
         THEN IF LireOctet(buf, i + 1, hors) = SYNC_L
              THEN [pos |-> i, lus |-> lus \cup {i, i + 1}]
              ELSE TrouverSyncDe(buf, i + 1, hors, lus \cup {i, i + 1})
         ELSE TrouverSyncDe(buf, i + 1, hors, lus \cup {i})

\* The result (pos) and the set of indices read (lus).
TrouverSync(buf, debut, hors) == TrouverSyncDe(buf, debut, hors, {})


(***************************************************************************)
(* decoder_trame has an empty body: control flows off the end of a         *)
(* function returning bool, so the value returned is indeterminate and the *)
(* caller's Trame keeps whatever it held (nothing is decoded into it).     *)
(* ok and laissee are the outcome the build produces.                      *)
(***************************************************************************)
DecoderTrame(buf, debut, ok, laissee) == [ok |-> ok, trame |-> laissee]

\* trame_valide: sizeof(trame) is the size of the pointer, never 39.
TrameValide(trame, taille_pointeur) ==
    trame.sync1 = 170 /\ trame.sync2 = 85 /\ taille_pointeur = 39

\* est_en_alerte: axe.courant (milliamperes) > seuil (amperes), that is
\* courant > seuil_mA / 1000.
EstEnAlerte(axe, seuil_mA) == axe.courant * 1000 > seuil_mA

\* An analyser_trame that counts an alert on every frame and no valid frame.
AnalyserTrameCompteAlerte(trame, s, seuil_mA) ==
    [alerte |-> TRUE, stats |-> [s EXCEPT !.trames_alerte = @ + 1]]

\* analyser_trame: returns false and leaves the statistics as they are.
AnalyserTrame(trame, s, seuil_mA) == [alerte |-> FALSE, stats |-> s]

\* lire_donnees: from stdin the loop tests eof() before get(), so the EOF
\* that the last get() returns is pushed as one more octet.
LireDonnees(src, octets) ==
    IF src = "-" THEN octets \o << OCTET_EOF >> ELSE octets

\* A line ecrire_statistiques does not write.
NonEcrit == -1

\* ecrire_statistiques: the numbers it writes.
EcrireStatistiques(s) ==
    [octets_lus |-> s.octets_lus,
     octets_bruit |-> s.octets_bruit,
     trames_valides |-> s.trames_valides,
     trames_alerte |-> s.trames_alerte,
     sequence_min |-> IF s.trames_valides > 0 THEN s.sequence_min ELSE NonEcrit,
     sequence_max |-> IF s.trames_valides > 0 THEN s.sequence_max ELSE NonEcrit,
     trames_perdues |-> NonEcrit]

(***************************************************************************)
(* Inputs.                                                                 *)
(***************************************************************************)
Octets == {0, SYNC_L, SYNC_H}

PetitsTampons == UNION {[1..n -> Octets] : n \in 0..MaxPetit}

\* Filler put before a frame: octets that are no sync, or a lone SYNC_H.
Bruits == {[i \in 1..n |-> 1] : n \in 0..MaxBruit} \cup {<< SYNC_H >>}

\* Well-formed frames; the second carries 0xAA 0x55 in its payload
\* (position 21930 = 0x55AA).
TramesOctets ==
    {OctetsTrame(5, AxesDe(0, 6000, 1000)), OctetsTrame(6, AxesDe(21930, 1000, 1000))}

\* Number of octets kept of the last frame of an input.
Coupes == {0, 2, TAILLE_TRAME - 1, TAILLE_TRAME}

TamponsTrames ==
    {b \o t1 \o SubSeq(t2, 1, n) :
        b \in Bruits, t1 \in TramesOctets, t2 \in TramesOctets, n \in Coupes}
    \cup {b \o SubSeq(t, 1, n) : b \in Bruits, t \in TramesOctets, n \in Coupes}

Entrees == PetitsTampons \cup TamponsTrames

Sources == {"-", "fichier"}

\* What a Trame left undecoded may hold.
TramesLaissees == {Trame(0, 0, 0, 0, 0), Trame(SYNC_H, SYNC_L, 1, 0, 0)}

(***************************************************************************)
(* State.                                                                  *)
(***************************************************************************)
VARIABLES
    source,     \* argv[1]: "-" for stdin, else a file
    entree,     \* the octets the source holds
    seuil,      \* seuil_courant, in milliamperes
    buffer,     \* main's buffer
    pc,         \* main's position
    stats,      \* main's Statistiques
    rapport,    \* what ecrire_statistiques wrote
    appel,      \* the last call of a function on main's data, and its result
    analysees   \* sequence numbers of the frames given to analyser_trame

\* The producer (simulateur_telemetrie.cpp).
VARIABLES
    dt,         \* sim.dt = 1 / freq, as the fraction num / den of a second
    sim,        \* Simulateur: axes and sequence
    ticks,      \* per axis, the last call of simuler_axe: state before, limit hit
    nticks,     \* calls of simuler_axe made so far
    temps_reel, \* main: option -r
    nb_trames,  \* main: option -n, 0 for an endless run
    compteur,   \* main: frames written so far
    pcSim,      \* main's position in the body of its loop
    sortie,     \* the last write on the standard output
    jumeau      \* the same run, with the same draws, without option -r

varsAnalyseur ==
    << source, entree, seuil, buffer, pc, stats, rapport, appel, analysees >>

varsBoucle == << temps_reel, nb_trames, compteur, pcSim, sortie, jumeau >>

varsSimulateur == << dt, sim, ticks, nticks, varsBoucle >>

vars == << varsAnalyseur, varsSimulateur >>

AppelAucun ==
    [fn |-> "aucun", debut |-> 0, pos |-> 0, ok |-> FALSE, lus |-> {},
     trame |-> Trame(0, 0, 0, 0, 0), axe |-> DonneesAxe(0, 0, 0),
     avant |-> StatistiquesInit]

RapportVide == [ecrit |-> FALSE, lignes |-> EcrireStatistiques(StatistiquesInit),
                analysees |-> << >>]

(***************************************************************************)
(* Producer: the motion of one axis.  Positions and velocities are exact:  *)
(* they are held as whole numbers of 1 / Echelle degree (per second), and  *)
(* the tick periods and targets tried keep every product and quotient of   *)
(* simuler_axe exact.  Currents are held in whole milliamperes, computed   *)
(* from the velocity in whole degrees per second.                          *)
(***************************************************************************)
Echelle == 2 ^ 12

POSITION_MIN_DEG == << -170, -90, -80, -190, -120, -360 >>

POSITION_MAX_DEG == << 170, 110, 280, 190, 120, 360 >>

VITESSE_MAX_DEG_S == << 250, 250, 250, 430, 430, 630 >>

\* COURANT_NOMINAL_A, in milliamperes.
COURANT_NOMINAL_MA == << 8000, 6000, 4000, 2000, 2000, 1500 >>

Abs(x) == IF x < 0 THEN -x ELSE x

\* Simulateur's constructor: every axis at rest at 0 with a tenth of its
\* nominal current.
EtatAxeInit(axe) ==
    [position_deg |-> 0, vitesse_deg_s |-> 0, position_cible |-> 0,
     courant_base_a |-> COURANT_NOMINAL_MA[axe] \div 10]

SimulateurInit == [axes |-> [axe \in 1..NB_AXES |-> EtatAxeInit(axe)], sequence |-> 0]

\* Targets nouvelle_cible may draw, in degrees: the ends of 80 % of the range
\* (the upper end is excluded from the distribution) and the middle.
CibleVers(axe, sens) ==
    IF sens < 0 THEN (POSITION_MIN_DEG[axe] * 8) \div 10
    ELSE IF sens > 0 THEN (POSITION_MAX_DEG[axe] * 8) \div 10 - 1
    ELSE 0

Cibles(axe) == {CibleVers(axe, sens) : sens \in {-1, 0, 1}}

\* The draw of the current's noise, in standard deviations.
Sigmas == {-3, 0, 3}

\* The draws one call of simuler_axe may consume: whether the 2 % chance of a
\* new target comes up, that target, and the noise of the current.
TiragesAxe(axe) ==
    [nouvelle : BOOLEAN, cible : Cibles(axe), sigma : Sigmas]

\* The proportional control alone, without the acceleration limit.
VitesseSansLimite(vitesse, erreur, v_max, pas) ==
    IF erreur * 2 > v_max THEN v_max
    ELSE IF erreur * 2 < -v_max THEN -v_max ELSE erreur * 2

\* The proportional control and the acceleration limit, without the limit
\* on the desired velocity.
VitesseSansPlafond(vitesse, erreur, v_max, pas) ==
    LET delta_v_max == (v_max * 2 * pas.num) \div pas.den
        ecart == erreur * 2 - vitesse
    IN vitesse + (IF ecart > delta_v_max THEN delta_v_max
                  ELSE IF ecart < -delta_v_max THEN -delta_v_max ELSE ecart)

\* The velocity after the proportional control and the acceleration limit.
VitesseSuivante(vitesse, erreur, v_max, pas) ==
    LET voulue == erreur * 2
        vitesse_desiree == IF voulue > v_max THEN v_max
                           ELSE IF voulue < -v_max THEN -v_max ELSE voulue
        acc_max == v_max * 2
        delta_v_max == (acc_max * pas.num) \div pas.den
        ecart == vitesse_desiree - vitesse
        delta_v == IF ecart > delta_v_max THEN delta_v_max
                   ELSE IF ecart < -delta_v_max THEN -delta_v_max ELSE ecart
    IN vitesse + delta_v

\* The lower limit stop alone.
ButeeBasseSeule(position, vitesse, axe) ==
    LET min == POSITION_MIN_DEG[axe] * Echelle
    IN [position |-> IF position < min THEN min ELSE position,
        vitesse |-> IF position < min THEN 0 ELSE vitesse,
        butee |-> position < min]

\* The position and velocity after the limit stops, and whether one was hit.
Butees(position, vitesse, axe) ==
    LET min == POSITION_MIN_DEG[axe] * Echelle
        max == POSITION_MAX_DEG[axe] * Echelle
        bas == position < min
        p1 == IF bas THEN min ELSE position
        v1 == IF bas THEN 0 ELSE vitesse
        haut == p1 > max
    IN [position |-> IF haut THEN max ELSE p1,
        vitesse |-> IF haut THEN 0 ELSE v1,
        butee |-> bas \/ haut]

\* The current: nominal * (0.1 + 0.9 * |v| / v_max), plus noise of standard
\* deviation 5 % of it, not below 0.
CourantSuivant(vitesse, axe, sigma) ==
    LET base == (COURANT_NOMINAL_MA[axe]
                    * (VITESSE_MAX_DEG_S[axe] + 9 * (Abs(vitesse) \div Echelle)))
                \div (10 * VITESSE_MAX_DEG_S[axe])
        bruite == base + (sigma * base) \div 20
    IN IF bruite < 0 THEN 0 ELSE bruite

\* simuler_axe: the new state of the axis, and whether a limit stop was hit.
SimulerAxe(a, axe, pas, tirage) ==
    LET proche == Abs(a.position_cible - a.position_deg) < Echelle
        cible == IF proche /\ tirage.nouvelle THEN tirage.cible * Echelle
                 ELSE a.position_cible
        erreur == cible - a.position_deg
        v == VitesseSuivante(a.vitesse_deg_s, erreur, VITESSE_MAX_DEG_S[axe] * Echelle, pas)
        b == Butees(a.position_deg + (v * pas.num) \div pas.den, v, axe)
    IN [etat |-> [position_deg |-> b.position, vitesse_deg_s |-> b.vitesse,
                  position_cible |-> cible,
                  courant_base_a |-> CourantSuivant(b.vitesse, axe, tirage.sigma)],
        butee |-> b.butee]

\* A float converted to an integer: the fraction is dropped, toward zero.
Tronquer(x, d) == IF x < 0 THEN -((-x) \div d) ELSE x \div d

\* The raw values generer_trame computes from an axis, before the casts to
\* int16_t and uint16_t: hundredths of a degree, tenths of a degree per
\* second, milliamperes.
PositionBrute(a) == Tronquer(a.position_deg * 100, Echelle)

VitesseBrute(a) == Tronquer(a.vitesse_deg_s * 10, Echelle)

CourantBrut(a) == a.courant_base_a

TicksInit ==
    [axe \in 1..NB_AXES |-> [fait |-> FALSE, avant |-> EtatAxeInit(axe), butee |-> FALSE]]

(***************************************************************************)
(* Producer: noise, frames and the loop of main.                           *)
(***************************************************************************)
Int16 == -32768..32767

Uint16 == 0..65535

\* static_cast<int16_t> of a float: the value when it is representable;
\* otherwise the behaviour is undefined, and the builds at hand either keep
\* the low 16 bits of the integer or saturate.
VersInt16(x, indefini) ==
    IF x \in Int16 THEN x
    ELSE IF indefini = "modulo" THEN ((x + 32768) % 65536) - 32768
    ELSE IF x > 0 THEN 32767 ELSE -32768

\* static_cast<uint16_t> of a float, likewise.
VersUint16DeFloat(x, indefini) ==
    IF x \in Uint16 THEN x
    ELSE IF indefini = "modulo" THEN x % 65536
    ELSE IF x > 0 THEN 65535 ELSE 0

\* uint8_t sequence, after sim.sequence++ without the wrap of the type.
SequenceSansRetour(sequence) == sequence + 1

\* uint8_t sequence, after sim.sequence++.
SequenceSuivante(sequence) == (sequence + 1) % 256

\* The alert of a frame: the axis (0 for none, axe_alerte = -1) and the
\* current written in its place.
SansAlerte == [axe |-> 0, courant |-> 0]

\* A C array of NB_AXES elements, from the function giving each element.
Tableau(f) == f \o << >>

\* generer_trame: the simulator after the call, the octets of the buffer, and
\* for the record the sequence number and raw values they encode and each
\* axis's call of simuler_axe.
GenererTrame(s, pas, tirage) ==
    LET r == Tableau([axe \in 1..NB_AXES |->
                SimulerAxe(s.axes[axe], axe, pas, tirage.axes[axe])])
        bruts == Tableau([axe \in 1..NB_AXES |->
                    DonneesAxe(
                        VersInt16(PositionBrute(r[axe].etat), tirage.indefini),
                        VersInt16(VitesseBrute(r[axe].etat), tirage.indefini),
                        IF axe = tirage.alerte.axe THEN tirage.alerte.courant
                        ELSE VersUint16DeFloat(CourantBrut(r[axe].etat), tirage.indefini))])
    IN [sim |-> [axes |-> [axe \in 1..NB_AXES |-> r[axe].etat],
                 sequence |-> SequenceSuivante(s.sequence)],
        octets |-> OctetsTrame(s.sequence, bruts),
        sequence |-> s.sequence,
        bruts |-> bruts,
        ticks |-> [axe \in 1..NB_AXES |->
                     [fait |-> TRUE, avant |-> s.axes[axe], butee |-> r[axe].butee]]]

\* generer_bruit that lets SYNC_L through.
GenererBruitSansFiltreBas(tires) ==
    [i \in 1..Len(tires) |-> IF tires[i] = SYNC_H THEN 0 ELSE tires[i]]

\* generer_bruit: the octets written, one per octet drawn.
GenererBruit(tires) ==
    [i \in 1..Len(tires) |-> IF tires[i] = SYNC_H \/ tires[i] = SYNC_L THEN 0 ELSE tires[i]]

\* dist_nb_bruit(1, 10).
NB_BRUIT_MIN == 1

NB_BRUIT_MAX == 10

\* Octets drawn for noise: both sync octets, 0 and 255 among them.
Motif == << SYNC_H, SYNC_L, 7, 0, 255 >>

BruitTire(nb, r) == [i \in 1..nb |-> Motif[((i + r) % Len(Motif)) + 1]]

\* One write on the standard output: what was written, and for the record
\* the octets drawn (noise) or the sequence number and raw values (frame).
BrutsNuls == [axe \in 1..NB_AXES |-> DonneesAxe(0, 0, 0)]

SortieRien ==
    [genre |-> "rien", octets |-> << >>, tires |-> << >>, sequence |-> 0,
     bruts |-> BrutsNuls]

SortieBruit(tires, octets) ==
    [genre |-> "bruit", octets |-> octets, tires |-> tires, sequence |-> 0,
     bruts |-> BrutsNuls]

SortieTrame(g) ==
    [genre |-> "trame", octets |-> g.octets, tires |-> << >>,
     sequence |-> g.sequence, bruts |-> g.bruts]

\* What a run has produced: the simulator, the frame count, the last write,
\* and for the record the last calls of simuler_axe.
Production(s, c, o, t) == [sim |-> s, compteur |-> c, sortie |-> o, ticks |-> t]

\* main, lines 340-344: the noise before a frame, when it is drawn.
InjecterBruit(p, tires) ==
    IF tires = << >> THEN [p EXCEPT !.sortie = SortieRien]
    ELSE [p EXCEPT !.sortie = SortieBruit(tires, GenererBruit(tires))]

\* main, lines 346-352: generate and write a frame, count it.
EcrireTrame(p, pas, tirage) ==
    LET g == GenererTrame(p.sim, pas, tirage)
    IN Production(g.sim, p.compteur + 1, SortieTrame(g), g.ticks)

\* A pacing block that draws from the simulator when it sleeps.
AttendreEnAvancant(p, tr, dort) ==
    IF tr /\ dort THEN [p EXCEPT !.sim.sequence = SequenceSuivante(p.sim.sequence)]
    ELSE p

\* main, lines 354-361: the pacing block; it reads the clock and sleeps.
Attendre(p, tr, dort) == p

\* The loop of main not entered.
BoucleArretee ==
    /\ temps_reel = FALSE
    /\ nb_trames = 0
    /\ compteur = 0
    /\ pcSim = "arret"
    /\ sortie = SortieRien
    /\ jumeau = Production(SimulateurInit, 0, SortieRien, TicksInit)

\* The producer as the analyser's runs leave it: not started.
SimulateurArrete ==
    /\ dt = [num |-> 1, den |-> 100]
    /\ sim = SimulateurInit
    /\ ticks = TicksInit
    /\ nticks = 0
    /\ BoucleArretee

\* main, lines 369-383: default threshold 5.0 A.
SEUIL_DEFAUT_MA == 5000

InitCommun ==
    /\ buffer = << >>
    /\ pc = "lire"
    /\ stats = StatistiquesInit
    /\ rapport = RapportVide
    /\ appel = AppelAucun
    /\ analysees = << >>

Init ==
    /\ source \in Sources
    /\ entree \in Entrees
    /\ seuil = SEUIL_DEFAUT_MA
    /\ InitCommun
    /\ SimulateurArrete

(***************************************************************************)
(* main.                                                                   *)
(***************************************************************************)
\* Lines 391-396: read the data; an empty buffer ends the program with 1.
MainLireDonnees ==
    /\ pc = "lire"
    /\ buffer' = LireDonnees(source, entree)
    /\ pc' = IF buffer' = << >> THEN "erreur" ELSE "stats"
    /\ UNCHANGED << source, entree, seuil, stats, rapport, appel, analysees >>

\* Lines 418-422: the statistics object.
MainStatistiques ==
    /\ pc = "stats"
    /\ stats' = [StatistiquesInit EXCEPT !.octets_lus = Len(buffer)]
    /\ pc' = "traitement"
    /\ UNCHANGED << source, entree, seuil, buffer, rapport, appel, analysees >>

\* Lines 424-442: the processing loop is not written; the statistics are
\* written as they stand and main returns 0.
MainEcrireStatistiques ==
    /\ pc = "traitement"
    /\ rapport' = [ecrit |-> TRUE, lignes |-> EcrireStatistiques(stats),
                   analysees |-> analysees]
    /\ pc' = "fin"
    /\ UNCHANGED << source, entree, seuil, buffer, stats, appel, analysees >>

(***************************************************************************)
(* Calls of the scanner's functions on main's buffer.  main itself calls   *)
(* none of them (its processing loop is not written): they are applied     *)
(* where that loop belongs, between the construction of the statistics     *)
(* and ecrire_statistiques.  A call's result does not depend on the calls  *)
(* made before it.                                                         *)
(***************************************************************************)
\* Start offsets tried on a buffer: the first octets of each 39-octet stride
\* (where a scan's cursor stands after whole frames), the last octet, the end.
Debuts(buf) ==
    {d \in 0..Len(buf) : d % TAILLE_TRAME <= MaxDebut \/ Len(buf) - d <= 1}

\* What the octet after the end of the buffer may hold.
Hors == {0, SYNC_L}

\* The offsets trouver_sync can return on a buffer.
Trouves(buf) ==
    {TrouverSync(buf, d, h).pos : d \in Debuts(buf), h \in Hors} \ {-1}

AppelTrouverSync ==
    /\ pc = "traitement"
    /\ \E debut \in Debuts(buffer), hors \in Hors :
          LET r == TrouverSync(buffer, debut, hors)
          IN appel' = [AppelAucun EXCEPT !.fn = "trouver_sync", !.debut = debut,
                                         !.pos = r.pos, !.lus = r.lus]
    /\ UNCHANGED << source, entree, seuil, buffer, pc, stats, rapport, analysees >>

\* decoder_trame(buffer + debut, trame) at an offset trouver_sync returned.
AppelDecoderTrame ==
    /\ pc = "traitement"
    /\ \E debut \in Trouves(buffer), ok \in BOOLEAN, laissee \in TramesLaissees :
          LET r == DecoderTrame(buffer, debut, ok, laissee)
          IN appel' = [AppelAucun EXCEPT !.fn = "decoder_trame", !.debut = debut,
                                         !.ok = r.ok, !.trame = r.trame]
    /\ UNCHANGED << source, entree, seuil, buffer, pc, stats, rapport, analysees >>

(***************************************************************************)
(* Calls of the statistics engine's functions on main's statistics.        *)
(***************************************************************************)
\* Sync octets, right and wrong.
OctetsSync == {0, SYNC_L, SYNC_H}

TramesAValider ==
    {Trame(s1, s2, 0, 1000, 1000) : s1 \in OctetsSync, s2 \in OctetsSync}

\* Raw currents, in milliamperes, around the thresholds.
Courants == {0, 5, 6, 4499, 4500, 4501, 4999, 5000, 5001, 6000, 65535}

\* Thresholds, in milliamperes: the default 5.0 A, 4.5 A and 0 A.
Seuils == {0, 4500, SEUIL_DEFAUT_MA}

\* Sequence numbers around the wrap from 255 to 0.
NumerosSequence == {254, 255, 0, 1}

TramesAAnalyser ==
    {Trame(SYNC_H, SYNC_L, seq, c1, c6) :
        seq \in NumerosSequence, c1 \in {1000, 5000, 5001}, c6 \in {1000, 6000}}

\* The input of the statistics runs: three filler octets and two frames.
EntreeAnalyse ==
    << 1, 1, 1 >> \o OctetsTrame(5, AxesDe(0, 6000, 1000))
                 \o OctetsTrame(6, AxesDe(0, 1000, 1000))

InitAnalyse ==
    /\ source \in Sources
    /\ entree = EntreeAnalyse
    /\ seuil \in Seuils
    /\ InitCommun
    /\ SimulateurArrete

AppelTrameValide ==
    /\ pc = "traitement"
    /\ \E trame \in TramesAValider, taille_pointeur \in TaillesPointeur :
          appel' = [AppelAucun EXCEPT !.fn = "trame_valide", !.trame = trame,
                                     !.ok = TrameValide(trame, taille_pointeur)]
    /\ UNCHANGED << source, entree, seuil, buffer, pc, stats, rapport, analysees >>

AppelEstEnAlerte ==
    /\ pc = "traitement"
    /\ \E courant \in Courants :
          LET axe == DonneesAxe(0, 0, courant)
          IN appel' = [AppelAucun EXCEPT !.fn = "est_en_alerte", !.axe = axe,
                                         !.ok = EstEnAlerte(axe, seuil)]
    /\ UNCHANGED << source, entree, seuil, buffer, pc, stats, rapport, analysees >>

AppelAnalyserTrame ==
    /\ pc = "traitement"
    /\ Len(analysees) < MaxTrames
    /\ \E trame \in TramesAAnalyser :
          LET r == AnalyserTrame(trame, stats, seuil)
          IN /\ stats' = r.stats
             /\ appel' = [AppelAucun EXCEPT !.fn = "analyser_trame", !.trame = trame,
                                            !.ok = r.alerte, !.avant = stats]
             /\ analysees' = Append(analysees, trame.sequence)
    /\ UNCHANGED << source, entree, seuil, buffer, pc, rapport >>

Next ==
    \/ MainLireDonnees /\ UNCHANGED varsSimulateur
    \/ MainStatistiques /\ UNCHANGED varsSimulateur
    \/ MainEcrireStatistiques /\ UNCHANGED varsSimulateur
    \/ AppelTrouverSync /\ UNCHANGED varsSimulateur
    \/ AppelDecoderTrame /\ UNCHANGED varsSimulateur

Spec == Init /\ [][Next]_vars

NextAnalyse ==
    \/ MainLireDonnees /\ UNCHANGED varsSimulateur
    \/ MainStatistiques /\ UNCHANGED varsSimulateur
    \/ MainEcrireStatistiques /\ UNCHANGED varsSimulateur
    \/ AppelTrameValide /\ UNCHANGED varsSimulateur
    \/ AppelEstEnAlerte /\ UNCHANGED varsSimulateur
    \/ AppelAnalyserTrame /\ UNCHANGED varsSimulateur

SpecAnalyse == InitAnalyse /\ [][NextAnalyse]_vars

(***************************************************************************)
(* Calls of simuler_axe on one axis of a producer just constructed, for a  *)
(* tick period of 1/4, 1/2, 1 or 2 seconds (-f 4, 2, 1, 0.5).  The axes    *)
(* do not touch each other's state.                                        *)
(***************************************************************************)
Periodes ==
    {[num |-> 1, den |-> 4], [num |-> 1, den |-> 2],
     [num |-> 1, den |-> 1], [num |-> 2, den |-> 1]}

\* The analyser as the producer's runs leave it: not started.
AnalyseurArrete ==
    /\ source = "fichier"
    /\ entree = << >>
    /\ seuil = SEUIL_DEFAUT_MA
    /\ InitCommun

InitAxe ==
    /\ dt \in Periodes
    /\ sim = SimulateurInit
    /\ ticks = TicksInit
    /\ nticks = 0
    /\ BoucleArretee
    /\ AnalyseurArrete

AppelSimulerAxe ==
    /\ nticks < MaxTicks
    /\ \E axe \in 1..NB_AXES :
          /\ \A autre \in 1..NB_AXES : ticks[autre].fait => autre = axe
          /\ \E tirage \in TiragesAxe(axe) :
                LET r == SimulerAxe(sim.axes[axe], axe, dt, tirage)
                IN /\ sim' = [sim EXCEPT !.axes[axe] = r.etat]
                   /\ ticks' = [ticks EXCEPT ![axe] =
                                   [fait |-> TRUE, avant |-> sim.axes[axe],
                                    butee |-> r.butee]]
    /\ nticks' = nticks + 1
    /\ UNCHANGED << dt, varsBoucle, varsAnalyseur >>

NextAxe == AppelSimulerAxe

SpecAxe == InitAxe /\ [][NextAxe]_vars

(***************************************************************************)
(* The producer's main loop, lines 335-362, at 2 or 1 frames per second    *)
(* (-f 2, -f 1), where positions stay at whole degrees however long the    *)
(* run.  The first MaxRiche frames take every draw enumerated below; the   *)
(* later ones take the draws that leave the axes on their course.          *)
(***************************************************************************)
PeriodesBoucle == {[num |-> 1, den |-> 2], [num |-> 1, den |-> 1]}

NbTramesEssayes == {0, 2}

\* The axes that draw new targets in these runs.
AxesMobiles == {1, NB_AXES}

\* Alerts drawn: none, or an axis and a current of 5500 to 7999 mA.
Alertes ==
    {SansAlerte, [axe |-> 1, courant |-> 5500], [axe |-> NB_AXES, courant |-> 7999]}

Indefinis == {"modulo", "sature"}

\* An axis that draws no new target.
TirageCalme(sigma) == [nouvelle |-> FALSE, cible |-> 0, sigma |-> sigma]

\* The draws of one call of generer_trame.
TirageTrame(alerte, mobile, sens, sigma, indefini) ==
    [alerte |-> alerte,
     axes |-> [axe \in 1..NB_AXES |->
                 IF axe = mobile
                 THEN [nouvelle |-> TRUE, cible |-> CibleVers(axe, sens), sigma |-> sigma]
                 ELSE TirageCalme(sigma)],
     indefini |-> indefini]

TiragesTrame(c) ==
    IF c < MaxRiche
    THEN {TirageTrame(alerte, 0, 1, 0, indefini) :
            alerte \in Alertes, indefini \in Indefinis}
         \cup {TirageTrame(SansAlerte, mobile, sens, 0, indefini) :
                 mobile \in AxesMobiles, sens \in {-1, 1}, indefini \in Indefinis}
         \cup {TirageTrame(SansAlerte, 0, 1, sigma, indefini) :
                 sigma \in Sigmas, indefini \in Indefinis}
    ELSE {TirageTrame(SansAlerte, 0, 1, 0, indefini) : indefini \in Indefinis}

\* The draws of the noise before a frame: << >> when none is injected.
TiragesBruit(c) ==
    IF c < MaxRiche
    THEN {<< >>} \cup {BruitTire(nb, 0) : nb \in NB_BRUIT_MIN..NB_BRUIT_MAX}
                \cup {BruitTire(NB_BRUIT_MAX, r) : r \in 0..(Len(Motif) - 1)}
    ELSE {<< >>, BruitTire(NB_BRUIT_MAX, 0)}

InitSim ==
    /\ dt \in PeriodesBoucle
    /\ sim = SimulateurInit
    /\ ticks = TicksInit
    /\ nticks = 0
    /\ temps_reel \in BOOLEAN
    /\ nb_trames \in NbTramesEssayes
    /\ compteur = 0
    /\ pcSim = "bruit"
    /\ sortie = SortieRien
    /\ jumeau = Production(SimulateurInit, 0, SortieRien, TicksInit)
    /\ AnalyseurArrete

\* The loop's condition, line 336.
Continuer == nb_trames = 0 \/ compteur < nb_trames

\* Lines 336-344: the loop goes on; noise is injected when it is drawn.
MainBruit ==
    /\ pcSim = "bruit"
    /\ Continuer
    /\ compteur < MaxCompteur
    /\ \E tires \in TiragesBruit(compteur) :
          /\ sortie' = InjecterBruit(Production(sim, compteur, sortie, ticks), tires).sortie
          /\ jumeau' = InjecterBruit(jumeau, tires)
    /\ pcSim' = "trame"
    /\ UNCHANGED << dt, sim, ticks, nticks, temps_reel, nb_trames, compteur, varsAnalyseur >>

\* Lines 346-352: a frame is generated, written and counted.
MainTrame ==
    /\ pcSim = "trame"
    /\ \E tirage \in TiragesTrame(compteur) :
          /\ \E p \in {EcrireTrame(Production(sim, compteur, sortie, ticks), dt, tirage)} :
                /\ sim' = p.sim
                /\ compteur' = p.compteur
                /\ sortie' = p.sortie
                /\ ticks' = p.ticks
          /\ jumeau' = EcrireTrame(jumeau, dt, tirage)
    /\ nticks' = nticks + NB_AXES
    /\ pcSim' = "attente"
    /\ UNCHANGED << dt, temps_reel, nb_trames, varsAnalyseur >>

\* Lines 354-361: the pacing block; the twin run has no option -r.
MainAttente ==
    /\ pcSim = "attente"
    /\ \E dort \in BOOLEAN :
          LET p == Attendre(Production(sim, compteur, sortie, ticks), temps_reel, dort)
          IN /\ sim' = p.sim
             /\ compteur' = p.compteur
             /\ sortie' = p.sortie
             /\ ticks' = p.ticks
             /\ jumeau' = Attendre(jumeau, FALSE, dort)
    /\ pcSim' = "bruit"
    /\ UNCHANGED << dt, nticks, temps_reel, nb_trames, varsAnalyseur >>

\* Lines 336 and 364: the loop is left after nb_trames frames.
MainRetour ==
    /\ pcSim = "bruit"
    /\ ~Continuer
    /\ pcSim' = "fin"
    /\ UNCHANGED << dt, sim, ticks, nticks, temps_reel, nb_trames, compteur, sortie,
                    jumeau, varsAnalyseur >>

NextSim ==
    \/ MainBruit
    \/ MainTrame
    \/ MainAttente
    \/ MainRetour

SpecSim == InitSim /\ [][NextSim]_vars

(***************************************************************************)
(* Properties of the scanner.                                              *)
(***************************************************************************)
MinDe(S) == CHOOSE x \in S : \A y \in S : x <= y

MaxDe(S) == CHOOSE x \in S : \A y \in S : x >= y

\* The sync pairs that lie inside the buffer at or after debut.
PairesSync(buf, debut) ==
    {i \in debut..(Len(buf) - 2) : buf[i + 1] = SYNC_H /\ buf[i + 2] = SYNC_L}

\* The lowest of them, or -1.
SyncAttendu(buf, debut) ==
    IF PairesSync(buf, debut) = {} THEN -1 ELSE MinDe(PairesSync(buf, debut))

\* C1: trouver_sync returns the lowest index i >= debut with buffer[i] = 0xAA,
\* buffer[i+1] = 0x55 and i+1 inside the buffer, and -1 when there is none.
C1_TrouverSyncPlusBasIndice ==
    appel.fn = "trouver_sync" => appel.pos = SyncAttendu(buffer, appel.debut)

\* C2: every index trouver_sync reads is below the size of the buffer.
C2_TrouverSyncLitDansLeTampon ==
    appel.fn = "trouver_sync" => \A i \in appel.lus : i < Len(buffer)

\* C4: once the buffer has been processed, every octet read is counted either
\* as noise or as one of the 39 octets of a decoded frame.
C4_TousLesOctetsComptes ==
    pc = "fin" =>
        stats.octets_lus = stats.octets_bruit + TAILLE_TRAME * stats.trames_valides

\* C5: with fewer than 39 octets from the sync offset to the end, decoding
\* reports insufficient data; and when the first sync pair of the buffer is in
\* that case no frame is counted and every octet of the buffer is noise.
C5_TrameTronqueeDonneesInsuffisantes ==
    /\ (appel.fn = "decoder_trame" /\ Len(buffer) - appel.debut < TAILLE_TRAME)
            => ~appel.ok
    /\ (/\ pc = "fin"
        /\ SyncAttendu(buffer, 0) # -1
        /\ Len(buffer) - SyncAttendu(buffer, 0) < TAILLE_TRAME)
            => (stats.trames_valides = 0 /\ stats.octets_bruit = Len(buffer))

(***************************************************************************)
(* Properties of the statistics engine.                                    *)
(***************************************************************************)
Elements(seq) == {seq[i] : i \in 1..Len(seq)}

\* Each number is the one before it plus 1, modulo 256.
Contigues(seq) == \A i \in 2..Len(seq) : seq[i] = (seq[i - 1] + 1) % 256

\* C6: est_en_alerte is true exactly when the current, in milliamperes, is
\* strictly above the threshold, in milliamperes.
C6_AlerteSsiCourantAuDessusDuSeuil ==
    appel.fn = "est_en_alerte" => (appel.ok <=> appel.axe.courant > seuil)

\* C7: trame_valide is true exactly when the two sync octets are 0xAA, 0x55.
C7_ValideSsiOctetsSync ==
    appel.fn = "trame_valide" =>
        (appel.ok <=> (appel.trame.sync1 = SYNC_H /\ appel.trame.sync2 = SYNC_L))

\* C8: analyser_trame returns true exactly when one of the six axes is in
\* alert, and trames_alerte grows by 1 when it does and stays otherwise.
C8_AnalyserRendAlerteEtCompte ==
    appel.fn = "analyser_trame" =>
        /\ appel.ok <=> \E k \in 1..NB_AXES : EstEnAlerte(appel.trame.axe1[k], seuil)
        /\ stats.trames_alerte =
               appel.avant.trames_alerte + (IF appel.ok THEN 1 ELSE 0)

\* C9: after analyser_trame has run on some frames, sequence_min and
\* sequence_max are the least and the greatest of their sequence numbers.
C9_SequenceMinMaxNumeriques ==
    analysees # << >> =>
        /\ stats.sequence_min = MinDe(Elements(analysees))
        /\ stats.sequence_max = MaxDe(Elements(analysees))

\* C10: for a run of frames contiguous modulo 256 the final report gives 0
\* lost frames, and the numeric extremes as sequence min and max.
C10_SuiteContiguePerteNulle ==
    (rapport.ecrit /\ rapport.analysees # << >> /\ Contigues(rapport.analysees)) =>
        /\ rapport.lignes.trames_perdues = 0
        /\ rapport.lignes.sequence_min = MinDe(Elements(rapport.analysees))
        /\ rapport.lignes.sequence_max = MaxDe(Elements(rapport.analysees))

\* The sequence numbers travelled from the first frame to the last: the sum of
\* the steps between consecutive frames, a decrease counting as a wrap (+256).
RECURSIVE Etendue(_)
Etendue(seq) ==
    IF Len(seq) <= 1 THEN 0
    ELSE LET n == Len(seq)
             pas == seq[n] - seq[n - 1]
         IN Etendue(SubSeq(seq, 1, n - 1)) + (IF pas < 0 THEN pas + 256 ELSE pas)

\* Frames expected in the span, less the frames counted, never below 0.
PertesAttendues(seq, valides) ==
    IF Etendue(seq) + 1 - valides < 0 THEN 0 ELSE Etendue(seq) + 1 - valides

\* C11: for any sequence of decoded frames the lost-frame estimate of the
\* final report is the number of frames expected in the span travelled, less
\* trames_valides, and at least 0.
C11_PertesSelonEtendue ==
    (rapport.ecrit /\ rapport.analysees # << >>) =>
        rapport.lignes.trames_perdues =
            PertesAttendues(rapport.analysees, rapport.lignes.trames_valides)

\* C12: on the file of 3 filler octets, a frame of sequence 5 with 6000 mA on
\* axis 0 and a frame of sequence 6 with 1000 mA everywhere, with threshold
\* 5.0 A, main ends with 3 noise octets, 2 valid frames, 1 alert frame,
\* sequence min 5, max 6 and 0 lost frames.
C12_ScenarioDeBoutEnBout ==
    (/\ pc = "fin" /\ source = "fichier" /\ entree = EntreeAnalyse
     /\ seuil = SEUIL_DEFAUT_MA /\ analysees = << >>) =>
        /\ stats.octets_bruit = 3
        /\ stats.trames_valides = 2
        /\ stats.trames_alerte = 1
        /\ stats.sequence_min = 5
        /\ stats.sequence_max = 6
        /\ rapport.lignes.trames_perdues = 0

(***************************************************************************)
(* Properties of the codec.                                                *)
(***************************************************************************)
\* The frames whose octets the inputs hold.
TramesProduites ==
    {[sequence |-> 5, axes |-> AxesDe(0, 6000, 1000)],
     [sequence |-> 6, axes |-> AxesDe(21930, 1000, 1000)]}

\* C13: decoding the 39 octets that encode a frame gives that frame back,
\* field by field.
C13_DecoderInverseDeEncoder ==
    appel.fn = "decoder_trame" =>
        \A t \in TramesProduites :
            (/\ appel.debut + TAILLE_TRAME <= Len(buffer)
             /\ SubSeq(buffer, appel.debut + 1, appel.debut + TAILLE_TRAME)
                    = OctetsTrame(t.sequence, t.axes))
            => /\ appel.ok
               /\ appel.trame.sync1 = SYNC_H
               /\ appel.trame.sync2 = SYNC_L
               /\ appel.trame.sequence = t.sequence
               /\ appel.trame.axe1 = t.axes

(***************************************************************************)
(* Properties of the producer's axes.                                      *)
(***************************************************************************)
\* C17: after every tick each axis's position lies within its configured
\* minimum and maximum, and an axis that was clamped to a limit in that
\* tick has velocity zero.
C17_PositionDansLesLimites ==
    \A axe \in 1..NB_AXES :
        /\ sim.axes[axe].position_deg >= POSITION_MIN_DEG[axe] * Echelle
        /\ sim.axes[axe].position_deg <= POSITION_MAX_DEG[axe] * Echelle
        /\ (ticks[axe].fait /\ ticks[axe].butee) => sim.axes[axe].vitesse_deg_s = 0

\* C17 witness: a tick drove an axis that was moving onto its upper limit.
C17_Temoin ==
    \E axe \in 1..NB_AXES :
        /\ ticks[axe].fait /\ ticks[axe].butee
        /\ sim.axes[axe].position_deg = POSITION_MAX_DEG[axe] * Echelle
        /\ ticks[axe].avant.vitesse_deg_s # 0

\* C18: over one tick an axis's velocity changes by at most
\* 2 * max_velocity * dt.
C18_VariationDeVitesseBornee ==
    \A axe \in 1..NB_AXES :
        ticks[axe].fait =>
            Abs(sim.axes[axe].vitesse_deg_s - ticks[axe].avant.vitesse_deg_s) * dt.den
                <= 2 * VITESSE_MAX_DEG_S[axe] * Echelle * dt.num

\* C18 witness: with a tick of 1/4 s the acceleration limit held an axis
\* below the velocity its error asked for.
C18_Temoin ==
    \E axe \in 1..NB_AXES :
        /\ ticks[axe].fait /\ ~ticks[axe].butee /\ dt.den = 4
        /\ Abs(sim.axes[axe].vitesse_deg_s - ticks[axe].avant.vitesse_deg_s) * dt.den
               = 2 * VITESSE_MAX_DEG_S[axe] * Echelle * dt.num
        /\ Abs(sim.axes[axe].vitesse_deg_s) < VITESSE_MAX_DEG_S[axe] * Echelle
        /\ Abs(sim.axes[axe].position_cible - ticks[axe].avant.position_deg) * 2
               >= VITESSE_MAX_DEG_S[axe] * Echelle

\* C19: in every reachable state the raw values of every axis fit their
\* 16-bit fields: position * 100 and velocity * 10 within -32768..32767,
\* current * 1000 within 0..65535.
C19_ValeursBrutesSurSeizeBits ==
    \A axe \in 1..NB_AXES :
        /\ PositionBrute(sim.axes[axe]) \in Int16
        /\ VitesseBrute(sim.axes[axe]) \in Int16
        /\ CourantBrut(sim.axes[axe]) \in Uint16

(***************************************************************************)
(* Properties of the producer's output.                                    *)
(***************************************************************************)
\* The 16-bit word at 0-based offset o of a buffer, low octet first.
MotLe(octets, o) == octets[o + 1] + 256 * octets[o + 2]

\* The two's complement of a 16-bit signed value.
Complement(v) == IF v < 0 THEN v + 65536 ELSE v

\* C14: a frame the producer writes is exactly 39 octets: 0xAA, 0x55, the
\* sequence number, then for each axis k = 0..5 the 16-bit raw position at
\* offset 3 + 6k, velocity at 5 + 6k and current at 7 + 6k, low octet first.
C14_DispositionDeLaTrame ==
    sortie.genre = "trame" =>
        /\ Len(sortie.octets) = 39
        /\ \A i \in 1..Len(sortie.octets) : sortie.octets[i] \in 0..255
        /\ sortie.octets[1] = 170
        /\ sortie.octets[2] = 85
        /\ sortie.octets[3] = sortie.sequence
        /\ \A k \in 0..5 :
              /\ MotLe(sortie.octets, 3 + 6 * k) = Complement(sortie.bruts[k + 1].position)
              /\ MotLe(sortie.octets, 5 + 6 * k) = Complement(sortie.bruts[k + 1].vitesse)
              /\ MotLe(sortie.octets, 7 + 6 * k) = sortie.bruts[k + 1].courant

\* C14 witness: a frame written with a negative position and velocity on the
\* first axis, of two different octets, and an alert current on the last.
C14_Temoin ==
    /\ sortie.genre = "trame"
    /\ sortie.bruts[1].position < 0
    /\ sortie.bruts[1].vitesse < 0
    /\ sortie.octets[4] # sortie.octets[5]
    /\ sortie.bruts[6].courant = 7999

\* C15: the sequence counter is 0 for the first frame and one more, modulo
\* 256, for each frame after it, whatever noise was injected in between.
C15_SequenceModulo256 ==
    /\ sim.sequence = compteur % 256
    /\ sortie.genre = "trame" =>
          /\ compteur >= 1
          /\ sortie.octets[3] = (compteur - 1) % 256

\* C15 witness: the 257th frame carries 0 again.
C15_Temoin ==
    /\ compteur = 257
    /\ sortie.genre = "trame"
    /\ sortie.octets[3] = 0
    /\ sim.sequence = 1

\* C16: a noise burst has between 1 and 10 octets, one for each octet
\* drawn: the octet drawn, or 0x00 when 0xAA or 0x55 was drawn; so none of
\* them is 0xAA or 0x55.
C16_BruitSansOctetDeSync ==
    sortie.genre = "bruit" =>
        /\ Len(sortie.octets) \in 1..10
        /\ Len(sortie.octets) = Len(sortie.tires)
        /\ \A i \in 1..Len(sortie.octets) :
              /\ sortie.octets[i] \notin {170, 85}
              /\ sortie.octets[i] =
                    IF sortie.tires[i] \in {170, 85} THEN 0 ELSE sortie.tires[i]

\* C16 witness: a burst of 10 octets for which both 0xAA and 0x55 were drawn.
C16_Temoin ==
    /\ sortie.genre = "bruit"
    /\ Len(sortie.octets) = 10
    /\ \E i, j \in 1..10 : sortie.tires[i] = 170 /\ sortie.tires[j] = 85
    /\ \E i \in 1..10 : sortie.octets[i] = 255

FluxProduits ==
    {[octets |-> GenererBruit(b) \o t1 \o t2, trames |-> 2, bruit |-> Len(b)] :
        b \in Bruits \ {<< SYNC_H >>}, t1 \in TramesOctets, t2 \in TramesOctets}

\* C21: on a stream the producer wrote (frames, each possibly after a noise
\* burst, 0xAA 0x55 allowed inside a frame), the analyser ends with
\* valid_frames equal to the number of frames produced and noise_bytes equal
\* to the number of noise octets injected.
C21_ResynchronisationSurFluxProduit ==
    \A f \in FluxProduits :
        (pc = "fin" /\ source = "fichier" /\ entree = f.octets) =>
            /\ stats.octets_lus = Len(f.octets)
            /\ stats.trames_valides = f.trames
            /\ stats.octets_bruit = f.bruit

(***************************************************************************)
(* Properties of the statistics.                                           *)
(***************************************************************************)
Compteurs == {"octets_lus", "octets_bruit", "trames_valides", "trames_alerte"}

C24_VitesseSousLeMaximum ==
    \A axe \in 1..NB_AXES :
        Abs(sim.axes[axe].vitesse_deg_s) <= VITESSE_MAX_DEG_S[axe] * Echelle

\* C24 witness: a tick left an axis at exactly its maximum velocity, on the
\* way to a target whose error asked for more.
C24_Temoin ==
    \E axe \in 1..NB_AXES :
        /\ ticks[axe].fait /\ ~ticks[axe].butee
        /\ Abs(sim.axes[axe].vitesse_deg_s) = VITESSE_MAX_DEG_S[axe] * Echelle
        /\ Abs(sim.axes[axe].position_cible - ticks[axe].avant.position_deg) * 2
               > VITESSE_MAX_DEG_S[axe] * Echelle

=============================================================================
